---- MODULE Spec2Model ----
(***************************************************************************)
(* Model of popular_sound_synthesis_techniques/sound_synthesis_module.py:  *)
(* the six generator classes (AdditiveSynthesis, SubtractiveSynthesis,     *)
(* FMSynthesis, WavetableSynthesis, GranularSynthesis, KarplusStrong),     *)
(* each constructed by __init__ and then run by generate_signal.           *)
(*                                                                         *)
(* Real numbers are exact rationals <<num, den>> with den > 0 (floating    *)
(* point rounding is not modelled).  Karplus-Strong samples are integers   *)
(* in units of 1/Scale, so that halving is exact.  sin() and the scipy     *)
(* filter are kept symbolic: a sample of those generators is the tuple of  *)
(* the arguments the numeric library is applied to.                        *)
(***************************************************************************)
EXTENDS Integers, Sequences, FiniteSets, TLC

VARIABLES
    args,          \* the arguments the caller passes to the constructor
    self,          \* the instance's attributes (NoInstance before __init__)
    pc,            \* "new" | "constructed" | "loop" | "returned" | "raised"
    err,           \* the exception raised, and the method that raised it
    result,        \* the buffer generate_signal returns
    t,             \* additive / subtractive / FM: the time axis
    indices,       \* wavetable: the table index of every sample
    grains,        \* granular: the list of grains extracted so far
    start,         \* granular: the loop variable of range(...)
    num_samples,   \* Karplus-Strong: number of samples to emit
    delay_length,  \* Karplus-Strong: length of the delay line
    buffer,        \* Karplus-Strong: the delay line
    signal_data,   \* Karplus-Strong: the samples emitted so far
    i,             \* Karplus-Strong: the loop variable
    excitation     \* Karplus-Strong: the delay line as first allocated

vars == <<args, self, pc, err, result, t, indices, grains, start,
          num_samples, delay_length, buffer, signal_data, i, excitation>>

----------------------------------------------------------------------------
(* Bounds of the model *)

MaxRate == 5
MaxFreq == 6
MaxSignalLen == 10
MaxGrainSize == 5
MaxTableLen == 3

(* Program constants *)

DefaultSampleRate == 44100

----------------------------------------------------------------------------
(* Exact arithmetic *)

Abs(x) == IF x < 0 THEN -x ELSE x

Min(a, b) == IF a < b THEN a ELSE b

Max(a, b) == IF a < b THEN b ELSE a

\* Python's int(x) of the rational n/d (d > 0): truncation toward zero.
IntTrunc(n, d) == IF n >= 0 THEN n \div d ELSE -((-n) \div d)

\* np.mod(x, 1) of the rational x = r[1]/r[2]: the result has the sign of 1.
Mod1(r) == <<r[1] % r[2], r[2]>>

RatEq(a, b) == a[1] * b[2] = b[1] * a[2]

\* Python's s[a:b] (numpy's too): negative positions count from the end,
\* and both positions are clamped to the sequence.
SliceIndex(n, len) == IF n < 0 THEN Max(n + len, 0) ELSE Min(n, len)

Slice(s, a, b) ==
    LET lo == SliceIndex(a, Len(s))
        hi == SliceIndex(b, Len(s))
    IN  IF lo < hi THEN SubSeq(s, lo + 1, hi) ELSE <<>>

RECURSIVE Concatenate(_)
Concatenate(ss) ==
    IF ss = <<>> THEN <<>> ELSE Head(ss) \o Concatenate(Tail(ss))

\* The numbers of samples: int(self.sample_rate * self.duration).
NumSamples(sample_rate, duration) ==
    IntTrunc(sample_rate * duration[1], duration[2])

\* np.linspace(0, stop, num, endpoint=False): num instants spaced stop/num.
LinspaceOpen(stop, num) ==
    [k \in 1..Max(num, 0) |-> <<(k - 1) * stop[1], stop[2] * num>>]

\* np.linspace(0, stop, num): num instants spaced stop/(num - 1), the last
\* one is stop itself; a single instant is 0.
LinspaceClosed(stop, num) ==
    [k \in 1..Max(num, 0) |->
        IF num = 1 THEN <<0, 1>>
        ELSE <<(k - 1) * stop[1], stop[2] * (num - 1)>>]

----------------------------------------------------------------------------
(* Inputs *)

SampleRates == 1..MaxRate

Durations == {<<0, 1>>, <<1, 2>>, <<1, 1>>, <<3, 2>>, <<2, 1>>}

Overlaps == {<<0, 1>>, <<1, 4>>, <<1, 2>>, <<3, 4>>, <<1, 1>>, <<5, 4>>}

Ramp(n) == [k \in 1..n |-> k - 1]

Wavetables == {[k \in 1..n |-> 10 * k] : n \in 0..MaxTableLen}

NumSamplesMax ==
    CHOOSE m \in 0..(2 * MaxRate) :
        /\ \E sr \in SampleRates, d \in Durations : m = NumSamples(sr, d)
        /\ \A sr \in SampleRates, d \in Durations : NumSamples(sr, d) <= m

\* One unit of a Karplus-Strong sample is 1/Scale: every value the loop can
\* produce from the excitation values below is a whole number of units.
Scale == 2 ^ (NumSamplesMax + 1)

\* np.random.rand(n) * 2 - 1 draws from [-1, 1).
ExcitationValues == {-Scale, 0, Scale \div 2}

AdditiveArgs ==
    [cls : {"AdditiveSynthesis"},
     frequencies : {<<>>, <<1>>, <<1, 2>>},
     amplitudes : {<<>>, <<1>>, <<1, 1>>},
     duration : Durations, sample_rate : SampleRates]

SubtractiveArgs ==
    [cls : {"SubtractiveSynthesis"}, frequency : {1, 2}, cutoff : {1},
     duration : Durations, sample_rate : SampleRates]

FMArgs ==
    [cls : {"FMSynthesis"}, carrier_freq : {2}, modulator_freq : {1},
     modulation_index : {0, 1},
     duration : Durations, sample_rate : SampleRates]

WavetableArgs ==
    [cls : {"WavetableSynthesis"}, wavetable : Wavetables,
     frequency : 1..3, duration : Durations, sample_rate : SampleRates]

GranularArgs ==
    [cls : {"GranularSynthesis"},
     signal : {Ramp(n) : n \in 0..MaxSignalLen},
     grain_size : 1..MaxGrainSize, overlap : Overlaps,
     sample_rate : {DefaultSampleRate}]

KarplusStrongArgs ==
    [cls : {"KarplusStrong"}, frequency : (-1)..MaxFreq,
     duration : Durations, sample_rate : SampleRates]

NoInstance == [cls |-> "None"]

NoError == [type |-> "None", in |-> "None"]

Raise(type) == [type |-> type, in |-> "generate_signal"]

----------------------------------------------------------------------------
(* State after the caller has chosen a class and its arguments *)

Init ==
    /\ args \in AdditiveArgs \cup SubtractiveArgs \cup FMArgs
                \cup WavetableArgs \cup GranularArgs \cup KarplusStrongArgs
    /\ self = NoInstance
    /\ pc = "new"
    /\ err = NoError
    /\ result = <<>>
    /\ t = <<>>
    /\ indices = <<>>
    /\ grains = <<>>
    /\ start = 0
    /\ num_samples = 0
    /\ delay_length = 0
    /\ buffer = <<>>
    /\ signal_data = <<>>
    /\ i = 0
    /\ excitation = <<>>

locals == <<result, t, indices, grains, start, num_samples, delay_length,
            buffer, signal_data, i, excitation>>

ksLocals == <<num_samples, delay_length, buffer, signal_data, i, excitation>>

\* Every __init__ only stores its arguments as attributes; none validates.
Construct(cls) ==
    /\ pc = "new"
    /\ args.cls = cls
    /\ self' = args
    /\ pc' = "constructed"
    /\ UNCHANGED <<args, err, locals>>

AdditiveInit == Construct("AdditiveSynthesis")

SubtractiveInit == Construct("SubtractiveSynthesis")

FMInit == Construct("FMSynthesis")

WavetableInit == Construct("WavetableSynthesis")

GranularInit == Construct("GranularSynthesis")

KarplusStrongInit == Construct("KarplusStrong")

----------------------------------------------------------------------------
(* GranularSynthesis.generate_signal *)

\* Faulty variant of GranularStep: the overlap widens the step.
GranularStepWider(grain_size, overlap) ==
    IntTrunc(grain_size * (overlap[2] + overlap[1]), overlap[2])

\* int(self.grain_size * (1 - self.overlap))
GranularStep(grain_size, overlap) ==
    IntTrunc(grain_size * (overlap[2] - overlap[1]), overlap[2])

\* The stop of range(0, num_samples - self.grain_size, step).
GranularStop(signal, grain_size) == Len(signal) - grain_size

\* Whether range(0, stop, step) still yields the value s.
InRange(s, stop, step) ==
    \/ step > 0 /\ s < stop
    \/ step < 0 /\ s > stop

\* Entering the for loop: range() rejects a zero step.
GranularCall ==
    /\ pc = "constructed"
    /\ self.cls = "GranularSynthesis"
    /\ grains' = <<>>
    /\ start' = 0
    /\ IF GranularStep(self.grain_size, self.overlap) = 0
       THEN pc' = "raised" /\ err' = Raise("ValueError")
       ELSE pc' = "loop" /\ err' = err
    /\ UNCHANGED <<args, self, result, t, indices, ksLocals>>

\* One iteration: extract signal[start : start + grain_size] and append it.
GranularIter ==
    /\ pc = "loop"
    /\ self.cls = "GranularSynthesis"
    /\ InRange(start, GranularStop(self.signal, self.grain_size),
               GranularStep(self.grain_size, self.overlap))
    /\ grains' = Append(grains,
                        Slice(self.signal, start, start + self.grain_size))
    /\ start' = start + GranularStep(self.grain_size, self.overlap)
    /\ UNCHANGED <<args, self, pc, err, result, t, indices, ksLocals>>

\* The loop is exhausted: np.concatenate(grains), which rejects an empty list.
GranularReturn ==
    /\ pc = "loop"
    /\ self.cls = "GranularSynthesis"
    /\ ~InRange(start, GranularStop(self.signal, self.grain_size),
                GranularStep(self.grain_size, self.overlap))
    /\ IF grains = <<>>
       THEN pc' = "raised" /\ err' = Raise("ValueError") /\ result' = result
       ELSE pc' = "returned" /\ err' = err /\ result' = Concatenate(grains)
    /\ UNCHANGED <<args, self, t, indices, grains, start, ksLocals>>

----------------------------------------------------------------------------
(* The time axis of the additive, subtractive and FM generators *)

\* np.linspace(0, self.duration, int(self.sample_rate * self.duration),
\*             endpoint=False)
TimeAxis(sample_rate, duration) ==
    LinspaceOpen(duration, NumSamples(sample_rate, duration))

----------------------------------------------------------------------------
(* AdditiveSynthesis.generate_signal *)

\* zip(self.frequencies, self.amplitudes) stops at the shorter list.
Zip(a, b) == [k \in 1..Min(Len(a), Len(b)) |-> <<a[k], b[k]>>]

\* signal_data[k] is the sum of a * sin(2 pi f t[k]) over the zipped partials,
\* kept as the list of its terms <<a, f, t[k]>>.
AdditiveGenerate ==
    /\ pc = "constructed"
    /\ self.cls = "AdditiveSynthesis"
    /\ LET time == TimeAxis(self.sample_rate, self.duration)
           partials == Zip(self.frequencies, self.amplitudes)
       IN  /\ t' = time
           /\ result' = [k \in 1..Len(time) |->
                           [j \in 1..Len(partials) |->
                               <<partials[j][2], partials[j][1], time[k]>>]]
    /\ pc' = "returned"
    /\ UNCHANGED <<args, self, err, indices, grains, start, ksLocals>>

----------------------------------------------------------------------------
(* SubtractiveSynthesis.generate_signal *)

\* 0.5 * (1 - np.mod(t * self.frequency, 1)) at one instant.
Sawtooth(time, frequency) ==
    LET wrapped == Mod1(<<time[1] * frequency, time[2]>>)
    IN  <<wrapped[2] - wrapped[1], 2 * wrapped[2]>>

\* self.cutoff / (0.5 * self.sample_rate)
NormalCutoff(cutoff, sample_rate) == <<2 * cutoff, sample_rate>>

\* scipy.signal.butter accepts a digital critical frequency in (0, 1) only.
ButterAccepts(wn) == 0 < wn[1] /\ wn[1] < wn[2]

\* scipy.signal.filtfilt pads with 3 * max(len(a), len(b)) = 6 samples and
\* accepts only an input longer than that.
FiltfiltAccepts(x) == Len(x) > 6

\* The filtered buffer is kept symbolic: sample k of
\* filtfilt(butter(1, normal_cutoff), sawtooth_wave).
SubtractiveGenerate ==
    /\ pc = "constructed"
    /\ self.cls = "SubtractiveSynthesis"
    /\ LET time == TimeAxis(self.sample_rate, self.duration)
           sawtooth_wave == [k \in 1..Len(time) |->
                                Sawtooth(time[k], self.frequency)]
           normal_cutoff == NormalCutoff(self.cutoff, self.sample_rate)
       IN  /\ t' = time
           /\ IF ButterAccepts(normal_cutoff) /\ FiltfiltAccepts(sawtooth_wave)
              THEN /\ pc' = "returned"
                   /\ err' = err
                   /\ result' = [k \in 1..Len(time) |->
                                    <<normal_cutoff, sawtooth_wave, k>>]
              ELSE /\ pc' = "raised"
                   /\ err' = Raise("ValueError")
                   /\ result' = result
    /\ UNCHANGED <<args, self, indices, grains, start, ksLocals>>

----------------------------------------------------------------------------
(* FMSynthesis.generate_signal *)

\* Sample k is sin(2 pi carrier_freq t[k]
\*                 + modulation_index * sin(2 pi modulator_freq t[k])),
\* kept as the tuple of its arguments.
FMGenerate ==
    /\ pc = "constructed"
    /\ self.cls = "FMSynthesis"
    /\ LET time == TimeAxis(self.sample_rate, self.duration)
       IN  /\ t' = time
           /\ result' = [k \in 1..Len(time) |->
                           <<self.carrier_freq, time[k],
                             self.modulation_index, self.modulator_freq>>]
    /\ pc' = "returned"
    /\ UNCHANGED <<args, self, err, indices, grains, start, ksLocals>>

----------------------------------------------------------------------------
(* WavetableSynthesis.generate_signal *)

\* Faulty variant of WavetablePhase: the phase ramp excludes its endpoint.
WavetablePhaseOpen(num, frequency) ==
    LET lin == LinspaceOpen(<<1, 1>>, num)
    IN  [k \in 1..Len(lin) |-> Mod1(<<lin[k][1] * frequency, lin[k][2]>>)]

\* np.mod(np.linspace(0, 1, num_samples) * self.frequency, 1)
WavetablePhase(num, frequency) ==
    LET lin == LinspaceClosed(<<1, 1>>, num)
    IN  [k \in 1..Len(lin) |-> Mod1(<<lin[k][1] * frequency, lin[k][2]>>)]

\* (phase * len(self.wavetable)).astype(int)
WavetableIndices(phase, length) ==
    [k \in 1..Len(phase) |-> IntTrunc(phase[k][1] * length, phase[k][2])]

\* self.wavetable[indices]: numpy rejects a position outside the table
\* (positions -length .. -1 count from the end).
WavetableGenerate ==
    /\ pc = "constructed"
    /\ self.cls = "WavetableSynthesis"
    /\ LET length == Len(self.wavetable)
           phase == WavetablePhase(NumSamples(self.sample_rate, self.duration),
                                   self.frequency)
           idx == WavetableIndices(phase, length)
       IN  /\ indices' = idx
           /\ IF \A k \in 1..Len(idx) : -length <= idx[k] /\ idx[k] < length
              THEN /\ pc' = "returned"
                   /\ err' = err
                   /\ result' = [k \in 1..Len(idx) |->
                                    self.wavetable[(idx[k] % length) + 1]]
              ELSE /\ pc' = "raised"
                   /\ err' = Raise("IndexError")
                   /\ result' = result
    /\ UNCHANGED <<args, self, t, grains, start, ksLocals>>

----------------------------------------------------------------------------
(* KarplusStrong.generate_signal *)

\* Faulty variant of DelayLength: rounds to the nearest integer.
DelayLengthNearest(sample_rate, frequency) ==
    IF frequency > 0
    THEN (2 * sample_rate + frequency) \div (2 * frequency)
    ELSE -((2 * sample_rate - frequency) \div (-2 * frequency))

\* int(self.sample_rate / self.frequency), for frequency # 0.
DelayLength(sample_rate, frequency) ==
    IF frequency > 0
    THEN IntTrunc(sample_rate, frequency)
    ELSE IntTrunc(-sample_rate, -frequency)

\* Faulty variant of Feedback: the factor 0.5 is lost.
FeedbackSum(a, b) == a + b

\* 0.5 * (a + b), exact on the values the loop meets.
Feedback(a, b) == (a + b) \div 2

\* The statements before the loop: the two lengths, the random excitation
\* and the zeroed output.  Division by a zero frequency raises, and so does
\* np.random.rand of a negative length.
KarplusStrongCall ==
    /\ pc = "constructed"
    /\ self.cls = "KarplusStrong"
    /\ num_samples' = NumSamples(self.sample_rate, self.duration)
    /\ IF self.frequency = 0
       THEN /\ pc' = "raised"
            /\ err' = Raise("ZeroDivisionError")
            /\ UNCHANGED <<delay_length, buffer, excitation>>
       ELSE /\ delay_length' = DelayLength(self.sample_rate, self.frequency)
            /\ IF delay_length' < 0
               THEN /\ pc' = "raised"
                    /\ err' = Raise("ValueError")
                    /\ UNCHANGED <<buffer, excitation>>
               ELSE /\ pc' = "loop"
                    /\ err' = err
                    /\ buffer' \in [1..delay_length' -> ExcitationValues]
                    /\ excitation' = buffer'
    /\ signal_data' = IF pc' = "loop"
                      THEN [k \in 1..num_samples' |-> 0]
                      ELSE signal_data
    /\ i' = 0
    /\ UNCHANGED <<args, self, result, t, indices, grains, start>>

\* Faulty variant of WrittenCell: the successor cell is overwritten.
WrittenCellNext(n, d) == ((n + 1) % d) + 1

\* The cell written in iteration n of a delay line of length d.
WrittenCell(n, d) == (n % d) + 1

\* One iteration of the loop: emit buffer[i % delay_length], then average
\* that cell with its successor.  The remainder by a zero length raises.
KarplusStrongIter ==
    /\ pc = "loop"
    /\ self.cls = "KarplusStrong"
    /\ i < num_samples
    /\ IF delay_length = 0
       THEN /\ pc' = "raised"
            /\ err' = Raise("ZeroDivisionError")
            /\ UNCHANGED <<signal_data, buffer, i>>
       ELSE /\ signal_data' = [signal_data EXCEPT
                                   ![i + 1] = buffer[(i % delay_length) + 1]]
            /\ buffer' = [buffer EXCEPT ![WrittenCell(i, delay_length)] =
                            Feedback(buffer[(i % delay_length) + 1],
                                     buffer[((i + 1) % delay_length) + 1])]
            /\ i' = i + 1
            /\ UNCHANGED <<pc, err>>
    /\ UNCHANGED <<args, self, result, t, indices, grains, start,
                   num_samples, delay_length, excitation>>

\* The loop is exhausted: return signal_data.
KarplusStrongReturn ==
    /\ pc = "loop"
    /\ self.cls = "KarplusStrong"
    /\ i >= num_samples
    /\ result' = signal_data
    /\ pc' = "returned"
    /\ UNCHANGED <<args, self, err, t, indices, grains, start, ksLocals>>

----------------------------------------------------------------------------

Next ==
    \/ AdditiveInit
    \/ SubtractiveInit
    \/ FMInit
    \/ WavetableInit
    \/ GranularInit
    \/ KarplusStrongInit
    \/ AdditiveGenerate
    \/ SubtractiveGenerate
    \/ FMGenerate
    \/ WavetableGenerate
    \/ GranularCall
    \/ GranularIter
    \/ GranularReturn
    \/ KarplusStrongCall
    \/ KarplusStrongIter
    \/ KarplusStrongReturn

Spec == Init /\ [][Next]_vars

----------------------------------------------------------------------------
(* Vocabulary of the properties *)

IsGranular == self.cls = "GranularSynthesis"

IsKarplusStrong == self.cls = "KarplusStrong"

IsWavetable == self.cls = "WavetableSynthesis"

UsesTimeAxis ==
    self.cls \in {"AdditiveSynthesis", "SubtractiveSynthesis", "FMSynthesis"}

Finished == pc \in {"returned", "raised"}

\* floor(grain_size * (1 - overlap)), as the specification writes the step.
FloorStep(grain_size, overlap) ==
    (grain_size * (overlap[2] - overlap[1])) \div overlap[2]

\* The number of starts 0, step, 2 step, ... below n - g.
StartCount(n, g, step) == Cardinality({k \in 0..n : k * step < n - g})

\* The grains signal[k step : k step + g] for k < count, one after the other.
GrainsInOrder(signal, g, step, count) ==
    [j \in 1..(count * g) |->
        signal[((j - 1) \div g) * step + ((j - 1) % g) + 1]]

MaxAbs(buf) ==
    IF buf = <<>> THEN 0
    ELSE CHOOSE m \in {Abs(buf[k]) : k \in 1..Len(buf)} :
            \A k \in 1..Len(buf) : Abs(buf[k]) <= m

\* floor(sample_rate * duration)
FloorSamples(sample_rate, duration) ==
    (sample_rate * duration[1]) \div duration[2]

----------------------------------------------------------------------------
(* GranularSynthesis *)

\* C1: for 0 < grain_size <= N and step = floor(grain_size * (1 - overlap))
\* >= 1, generate_signal returns the concatenation, in order and unwindowed,
\* of the grains signal[start : start + grain_size] for start = 0, step,
\* 2 step, ... while start < N - grain_size; every grain has grain_size
\* samples (signal 0..9, grain_size 4, overlap 0.5 gives
\* 0,1,2,3,2,3,4,5,4,5,6,7).
C1_GrainsConcatenated ==
    (/\ IsGranular
     /\ Finished
     /\ self.grain_size <= Len(self.signal)
     /\ FloorStep(self.grain_size, self.overlap) >= 1)
    => LET g == self.grain_size
           step == FloorStep(g, self.overlap)
           count == StartCount(Len(self.signal), g, step)
       IN  /\ pc = "returned"
           /\ Len(grains) = count
           /\ \A k \in 1..Len(grains) : Len(grains[k]) = g
           /\ result = GrainsInOrder(self.signal, g, step, count)
           /\ (self.signal = Ramp(10) /\ g = 4 /\ self.overlap = <<1, 2>>)
              => result = <<0, 1, 2, 3, 2, 3, 4, 5, 4, 5, 6, 7>>

\* The same statement for grain_size < N, where at least one grain is
\* extracted.
GrainsConcatenatedWhenSomeGrain ==
    (/\ IsGranular
     /\ Finished
     /\ self.grain_size < Len(self.signal)
     /\ FloorStep(self.grain_size, self.overlap) >= 1)
    => LET g == self.grain_size
           step == FloorStep(g, self.overlap)
           count == StartCount(Len(self.signal), g, step)
       IN  /\ pc = "returned"
           /\ Len(grains) = count
           /\ \A k \in 1..Len(grains) : Len(grains[k]) = g
           /\ result = GrainsInOrder(self.signal, g, step, count)
           /\ (self.signal = Ramp(10) /\ g = 4 /\ self.overlap = <<1, 2>>)
              => result = <<0, 1, 2, 3, 2, 3, 4, 5, 4, 5, 6, 7>>

\* C2: for overlap = 0 and 0 < grain_size <= N, generate_signal returns
\* floor(N / grain_size) * grain_size samples, the non-overlapping slices
\* signal[0:g], signal[g:2g], ... (also when grain_size divides N).
C2_ZeroOverlapLength ==
    (/\ IsGranular
     /\ Finished
     /\ self.overlap[1] = 0
     /\ self.grain_size <= Len(self.signal))
    => LET g == self.grain_size
           whole == (Len(self.signal) \div g) * g
       IN  /\ pc = "returned"
           /\ Len(result) = whole
           /\ result = SubSeq(self.signal, 1, whole)

\* C3: when grain_size > N (and the step is valid), generate_signal
\* completes normally with zero grains and returns an empty buffer.
C3_OversizedGrainReturnsEmpty ==
    (/\ IsGranular
     /\ Finished
     /\ self.grain_size > Len(self.signal)
     /\ FloorStep(self.grain_size, self.overlap) >= 1)
    => /\ pc = "returned"
       /\ grains = <<>>
       /\ result = <<>>

\* The configurations C4 lists as errors.
ConfigurationError(a) ==
    \/ /\ a.cls = "AdditiveSynthesis"
       /\ Len(a.frequencies) # Len(a.amplitudes)
    \/ /\ a.cls = "WavetableSynthesis"
       /\ a.wavetable = <<>>
    \/ /\ a.cls = "GranularSynthesis"
       /\ FloorStep(a.grain_size, a.overlap) <= 0
    \/ /\ a.cls = "KarplusStrong"
       /\ a.frequency <= 0

\* C4: every configuration error is reported by the constructor, and
\* generate_signal never fails on an instance that was constructed.
C4_ErrorsOnlyAtConstruction ==
    /\ (pc # "new" /\ ConfigurationError(args))
       => (pc = "raised" /\ err.in = "__init__")
    /\ pc = "raised" => err.in = "__init__"

\* C5 as first stated: an overlap > 0 with a valid step yields strictly more
\* grains than overlap = 0 yields for the same signal and grain_size (here
\* for the runs that return a buffer, so that no failed run is counted
\* against the statement).
C5_StrictlyMoreGrains ==
    (/\ IsGranular
     /\ pc = "returned"
     /\ self.overlap[1] > 0
     /\ FloorStep(self.grain_size, self.overlap) >= 1)
    => Len(grains) > StartCount(Len(self.signal), self.grain_size,
                                self.grain_size)

\* C5, amended: a run with overlap = 0 extracts exactly the grains starting
\* at 0, g, 2g, ... below N - g, and a run with overlap > 0 and a valid step
\* extracts at least as many grains as that, for the same signal and
\* grain_size.
C5_AtLeastAsManyGrains ==
    (/\ IsGranular
     /\ Finished
     /\ FloorStep(self.grain_size, self.overlap) >= 1)
    => LET reference == StartCount(Len(self.signal), self.grain_size,
                                   self.grain_size)
       IN  /\ self.overlap[1] = 0 => Len(grains) = reference
           /\ self.overlap[1] > 0 => Len(grains) >= reference

\* A run with overlap > 0 that did extract more grains than overlap = 0.
C5_Witness ==
    /\ IsGranular
    /\ pc = "returned"
    /\ self.overlap[1] > 0
    /\ FloorStep(self.grain_size, self.overlap) >= 1
    /\ Len(grains) > StartCount(Len(self.signal), self.grain_size,
                                self.grain_size)
    /\ StartCount(Len(self.signal), self.grain_size, self.grain_size) >= 2

----------------------------------------------------------------------------
(* KarplusStrong *)

\* The delay line has been allocated (sample_rate > 0 in every instance).
DelayLineAllocated ==
    /\ IsKarplusStrong
    /\ self.frequency > 0
    /\ pc \in {"loop", "returned", "raised"}

\* C6 as first stated: the delay line has length round(sample_rate /
\* frequency), the nearest integer, and that length is at least 1.
C6_DelayLengthRounded ==
    DelayLineAllocated
    => /\ Len(excitation) = delay_length
       /\ Abs(2 * self.frequency * delay_length - 2 * self.sample_rate)
             <= self.frequency
       /\ delay_length >= 1

\* C6, amended: the delay line has length floor(sample_rate / frequency)
\* (truncation, not rounding to nearest), and that length is at least 1
\* exactly when frequency <= sample_rate.
C6_DelayLengthTruncated ==
    DelayLineAllocated
    => /\ Len(excitation) = delay_length
       /\ delay_length * self.frequency <= self.sample_rate
       /\ self.sample_rate < (delay_length + 1) * self.frequency
       /\ delay_length >= 1 <=> self.frequency <= self.sample_rate

\* A delay line whose truncated length differs from the rounded one.
C6_Witness ==
    /\ DelayLineAllocated
    /\ delay_length >= 1
    /\ 2 * (self.sample_rate % self.frequency) > self.frequency

\* C7: no iteration increases the largest magnitude held in the delay line,
\* and every emitted sample is at most the largest magnitude of the initial
\* excitation.
C7_FeedbackNonExpansive ==
    /\ [][(IsKarplusStrong /\ pc = "loop")
            => MaxAbs(buffer') <= MaxAbs(buffer)]_vars
    /\ []((IsKarplusStrong /\ pc \in {"loop", "returned"})
            => \A k \in 1..i : Abs(signal_data[k]) <= MaxAbs(excitation))

\* The loop has wrapped around the delay line and the peak has decayed.
C7_Witness ==
    /\ IsKarplusStrong
    /\ pc = "loop"
    /\ delay_length >= 2
    /\ i > delay_length
    /\ 0 < MaxAbs(buffer)
    /\ MaxAbs(buffer) < MaxAbs(excitation)

\* Every average the loop takes is exact in units of 1/Scale.
FeedbackExact ==
    (IsKarplusStrong /\ pc = "loop" /\ i < num_samples /\ delay_length >= 1)
    => (buffer[(i % delay_length) + 1]
        + buffer[((i + 1) % delay_length) + 1]) % 2 = 0

\* C9: the loop runs i = 0 .. n-1 in order; step i emits the value held in
\* cell i mod D and only then replaces that cell by half the sum of that
\* value and the value of cell (i+1) mod D; no other cell changes and the
\* length D never changes; hence output[i] is the initial excitation cell i
\* for i < D.
C9_EmitThenAverage ==
    /\ [][(IsKarplusStrong /\ pc = "loop" /\ i < num_samples
           /\ delay_length >= 1)
            => LET cell == (i % delay_length) + 1
                   succ == ((i + 1) % delay_length) + 1
               IN  /\ i' = i + 1
                   /\ delay_length' = delay_length
                   /\ Len(buffer') = delay_length
                   /\ signal_data'[i + 1] = buffer[cell]
                   /\ \A k \in 1..Len(signal_data) :
                        k # i + 1 => signal_data'[k] = signal_data[k]
                   /\ 2 * buffer'[cell] = buffer[cell] + buffer[succ]
                   /\ \A k \in 1..delay_length :
                        k # cell => buffer'[k] = buffer[k]]_vars
    /\ []((IsKarplusStrong /\ pc \in {"loop", "returned"})
            => /\ Len(buffer) = delay_length
               /\ Len(signal_data) = num_samples
               /\ pc = "returned" => (i = num_samples /\ result = signal_data)
               /\ \A k \in 1..Min(i, delay_length) :
                    signal_data[k] = excitation[k])

\* The loop has wrapped around and emits a value the feedback produced.
C9_Witness ==
    /\ IsKarplusStrong
    /\ pc = "loop"
    /\ delay_length >= 2
    /\ i > delay_length
    /\ signal_data[i] # excitation[((i - 1) % delay_length) + 1]

----------------------------------------------------------------------------
(* The time axis *)

\* C8: the time axis has floor(sample_rate * duration) instants and instant
\* i is exactly i / sample_rate, also when sample_rate * duration is not an
\* integer.
C8_TimeAxisBySampleRate ==
    (UsesTimeAxis /\ Finished)
    => /\ Len(t) = FloorSamples(self.sample_rate, self.duration)
       /\ \A k \in 1..Len(t) : RatEq(t[k], <<k - 1, self.sample_rate>>)

\* The same statement when sample_rate * duration is an integer.
TimeAxisWhenWholeSamples ==
    (/\ UsesTimeAxis
     /\ Finished
     /\ (self.sample_rate * self.duration[1]) % self.duration[2] = 0)
    => /\ Len(t) = FloorSamples(self.sample_rate, self.duration)
       /\ \A k \in 1..Len(t) : RatEq(t[k], <<k - 1, self.sample_rate>>)

----------------------------------------------------------------------------
(* WavetableSynthesis *)

\* generate_signal has run on a table of length >= 1 for n > 0 samples.
WavetableRan ==
    /\ IsWavetable
    /\ Finished
    /\ Len(self.wavetable) >= 1
    /\ FloorSamples(self.sample_rate, self.duration) > 0

\* Sample k reads table position floor(frac((k - 1) f / den) * L) of a
\* table of length L.
ReadsPhase(k, den, L) ==
    LET p == ((k - 1) * self.frequency) % den
    IN  /\ indices[k] \in 0..(L - 1)
        /\ indices[k] * den <= p * L
        /\ p * L < (indices[k] + 1) * den
        /\ result[k] = self.wavetable[indices[k] + 1]

\* C10 as first stated: sample i is wavetable[floor(p_i * L)] with
\* p_i = frac((i / n) * frequency); every index is within [0, L) and every
\* value is a table entry copied verbatim.
C10_PhaseOverN ==
    WavetableRan
    => LET n == FloorSamples(self.sample_rate, self.duration)
       IN  /\ pc = "returned"
           /\ Len(result) = n
           /\ \A k \in 1..n : ReadsPhase(k, n, Len(self.wavetable))

\* C10, amended: sample i is wavetable[floor(p_i * L)] with
\* p_i = frac((i / (n - 1)) * frequency) for n >= 2 and p_0 = 0 for n = 1
\* (the phase ramp includes its endpoint 1); every index is within [0, L)
\* and every value is a table entry copied verbatim.
C10_PhaseOverNMinusOne ==
    WavetableRan
    => LET n == FloorSamples(self.sample_rate, self.duration)
       IN  /\ pc = "returned"
           /\ Len(result) = n
           /\ \A k \in 1..n :
                ReadsPhase(k, IF n = 1 THEN 1 ELSE n - 1, Len(self.wavetable))

\* A run that reads several table positions.
C10_Witness ==
    /\ WavetableRan
    /\ pc = "returned"
    /\ Len(self.wavetable) >= 2
    /\ Len(result) >= 3
    /\ \E k \in 1..Len(result) : indices[k] # 0
    /\ \E k \in 1..Len(result) : result[k] # result[1]

====
